---------------------------- MODULE Spec2Model ----------------------------
(***************************************************************************)
(* Career recommendation core: the catalog validator                       *)
(* (core/career_db_manager.py) and the rule engine (core/rule_engine.py:   *)
(* catalog loader, eight scoring rules, ranker).                           *)
(*                                                                         *)
(* Scores are Python floats in the source.  Here a score x is the integer  *)
(* x * Scale, and Scale is chosen so that every division the rules make    *)
(* on the inputs of this model is exact (ExactArithmetic states it).       *)
(* A call that raises is the value Raise, a call that returns v is Ok(v).  *)
(***************************************************************************)
EXTENDS Integers, Sequences, FiniteSets, TLC

VARIABLES
    source,         \* the CSV file behind csv_path / career_db_path
    user,           \* the UserProfile of the request
    career,         \* the CareerPath handed to calculate_career_score
    scored,         \* the outcome of calculate_career_score, once called
    report,         \* the report of validate_csv_structure, once called
    lists,          \* the heap of list objects the loader has created
    career_paths,   \* RuleEngine.career_paths of the engine in use: a list of
                    \* the heap, Unset until a constructor has returned
    lpc,            \* where the constructor / _load_career_database stands
    llocal,         \* the loader's local career_paths
    lrow,           \* the row df.iterrows() yields next
    lresult,        \* the list _load_career_database returns
    loads_left,     \* constructions still to come
    rpc,            \* where get_recommendations stands
    riter,          \* the list its for loop iterates
    ridx,           \* the position of that iterator
    racc,           \* its scored_careers
    rn,             \* its top_n
    recs,           \* the outcome of the last get_recommendations call
    calls_left,     \* get_recommendations calls still to come
    conversation_state, \* ChatbotFramework.conversation_state
    session_calls,  \* per session id: process_message calls since its last reset
    reply,          \* what the last process_message call returned
    summary,        \* what the last get_session_summary call returned
    clock           \* process_message calls made so far

input_vars == <<source, user, career>>
loader_vars == <<lists, career_paths, lpc, llocal, lrow, lresult, loads_left>>
reader_vars == <<rpc, riter, ridx, racc, rn, recs, calls_left>>
chat_vars == <<conversation_state, session_calls, reply, summary, clock>>
vars == <<source, user, career, scored, report, lists, career_paths, lpc, llocal,
          lrow, lresult, loads_left, rpc, riter, ridx, racc, rn, recs, calls_left,
          conversation_state, session_calls, reply, summary, clock>>

-----------------------------------------------------------------------------
(* Units and small helpers *)

Scale == 2 * 2 * 2 * 2 * 2 * 3 * 3 * 5 * 5 * 5

Min(a, b) == IF a <= b THEN a ELSE b
Max(a, b) == IF a >= b THEN a ELSE b

Ok(v) == [raised |-> FALSE, val |-> v]
Raise == [raised |-> TRUE, val |-> 0]

RECURSIVE SumOver(_, _)
SumOver(f, S) ==
    IF S = {} THEN 0
    ELSE LET x == CHOOSE y \in S : TRUE IN f[x] + SumOver(f, S \ {x})

NoMap == [x \in {} |-> 0]

\* no list object: an attribute or local that is not bound yet
Unset == 0

-----------------------------------------------------------------------------
(* Values of the data model *)

SkillNames == {"programming", "statistics"}
InterestNames == {"technology", "research"}

\* SkillLevel / InterestLevel enum values
BEGINNER == 1
EXPERT == 4
LOW == 1
MODERATE == 2
VERY_HIGH == 4
SkillLevel == BEGINNER..EXPERT
InterestLevel == LOW..VERY_HIGH

\* A parsed JSON value as the rules see it: t is its JSON type, m its entries
\* (of an object: name -> level; of an array: its items; of null: nothing).
JsonObject(m) == [t |-> "dict", m |-> m]
JsonNull == [t |-> "null", m |-> NoMap]
JsonArray(items) == [t |-> "list", m |-> [x \in items |-> 0]]

\* Python truthiness of a parsed value: None, {} and [] are falsy.
Falsy(v) == v.t = "null" \/ DOMAIN v.m = {}

\* A text cell holding a tag, or the float NaN pandas gives for an empty cell.
Str(s) == [kind |-> "str", s |-> s]
NaNCell == [kind |-> "empty", s |-> ""]

\* str.lower() on the education tags of this model
Lower(s) ==
    CASE s = "PhD" -> "phd"
      [] s = "Bachelor" -> "bachelor"
      [] OTHER -> s

-----------------------------------------------------------------------------
(* The eight scoring rules, core/rule_engine.py lines 126-223 *)

\* skill_match_rule with "==" for ">=" in the level test of line 138
skill_match_rule_exact_level(u, c) ==
    LET rs == c.required_skills IN
    IF Falsy(rs) THEN Ok(0)
    ELSE IF rs.t # "dict" THEN Raise
    ELSE
      LET matched == {s \in DOMAIN rs.m :
                        s \in DOMAIN u.skills /\ u.skills[s] = rs.m[s]}
      IN Ok((Min(Scale, (Cardinality(matched) * Scale) \div Cardinality(DOMAIN rs.m)) * 4)
              \div 10)

\* skill_match_rule taking a required skill the profile lacks as held at
\* BEGINNER
skill_match_rule_default_beginner(u, c) ==
    LET rs == c.required_skills IN
    IF Falsy(rs) THEN Ok(0)
    ELSE IF rs.t # "dict" THEN Raise
    ELSE
      LET level == [s \in DOMAIN rs.m |->
                      IF s \in DOMAIN u.skills THEN u.skills[s] ELSE BEGINNER]
          matched == {s \in DOMAIN rs.m : level[s] >= rs.m[s]}
          bonus == [s \in matched |-> Max(0, level[s] - rs.m[s])]
      IN Ok((Min(Scale, (Cardinality(matched) * Scale) \div Cardinality(DOMAIN rs.m)
                          + (SumOver(bonus, matched) * Scale) \div 10) * 4) \div 10)

\* skill_match_rule with the bonus counted only when every required skill
\* is matched
skill_match_rule_bonus_when_all_met(u, c) ==
    LET rs == c.required_skills IN
    IF Falsy(rs) THEN Ok(0)
    ELSE IF rs.t # "dict" THEN Raise
    ELSE
      LET total_skills == Cardinality(DOMAIN rs.m)
          matched == {s \in DOMAIN rs.m :
                        s \in DOMAIN u.skills /\ u.skills[s] >= rs.m[s]}
          bonus == [s \in matched |-> Max(0, u.skills[s] - rs.m[s])]
          skill_quality_bonus == IF matched = DOMAIN rs.m
                                 THEN (SumOver(bonus, matched) * Scale) \div 10
                                 ELSE 0
          base_score == (Cardinality(matched) * Scale) \div total_skills
      IN Ok((Min(Scale, base_score + skill_quality_bonus) * 4) \div 10)

\* 40% weight
skill_match_rule(u, c) ==
    LET rs == c.required_skills IN
    IF Falsy(rs) THEN Ok(0)
    ELSE IF rs.t # "dict" THEN Raise                 \* a list has no .items()
    ELSE
      LET total_skills == Cardinality(DOMAIN rs.m)
          matched == {s \in DOMAIN rs.m :
                        s \in DOMAIN u.skills /\ u.skills[s] >= rs.m[s]}
          matched_skills == Cardinality(matched)
          \* skill_quality_bonus in tenths
          bonus == [s \in matched |-> Max(0, u.skills[s] - rs.m[s])]
          skill_quality_bonus == (SumOver(bonus, matched) * Scale) \div 10
          base_score == (matched_skills * Scale) \div total_skills
      IN Ok((Min(Scale, base_score + skill_quality_bonus) * 4) \div 10)

\* the interest rule taking an interest the profile lacks as held at MODERATE
interest_alignment_rule_default_moderate(u, c) ==
    LET ri == c.relevant_interests IN
    IF Falsy(ri) THEN Ok(0)
    ELSE IF ri.t # "dict" THEN Raise
    ELSE
      LET total_interests == Cardinality(DOMAIN ri.m)
          level(i) == IF i \in DOMAIN u.interests THEN u.interests[i] ELSE MODERATE
          term == [i \in DOMAIN ri.m |->
                     IF ri.m[i] = 0 THEN 0
                     ELSE Min((level(i) * Scale) \div ri.m[i], (3 * Scale) \div 2)]
          alignment_score == SumOver(term, DOMAIN ri.m)
      IN IF \E i \in DOMAIN ri.m : ri.m[i] = 0 THEN Raise
         ELSE Ok(Min(Scale, alignment_score \div total_interests) \div 4)

\* 25% weight
interest_alignment_rule(u, c) ==
    LET ri == c.relevant_interests IN
    IF Falsy(ri) THEN Ok(0)
    ELSE IF ri.t # "dict" THEN Raise
    ELSE
      LET total_interests == Cardinality(DOMAIN ri.m)
          held == {i \in DOMAIN ri.m : i \in DOMAIN u.interests}
          term == [i \in held |->
                     IF ri.m[i] = 0 THEN 0
                     ELSE Min((u.interests[i] * Scale) \div ri.m[i],
                              (3 * Scale) \div 2)]
          alignment_score == SumOver(term, held)
      IN IF \E i \in held : ri.m[i] = 0 THEN Raise   \* ZeroDivisionError
         ELSE Ok(Min(Scale, alignment_score \div total_interests) \div 4)

\* the experience rule with a bonus of 0.05 per year above the minimum
experience_requirement_rule_steeper_bonus(u, c) ==
    IF u.experience_years >= c.min_experience
    THEN LET bonus == Min(Scale \div 5,
                          ((u.experience_years - c.min_experience) * Scale) \div 20)
         IN Ok((Min(Scale, (8 * Scale) \div 10 + bonus) * 15) \div 100)
    ELSE LET deficit == c.min_experience - u.experience_years
             penalty == Min((6 * Scale) \div 10, (deficit * Scale) \div 10)
         IN Ok((Max(0, (4 * Scale) \div 10 - penalty) * 15) \div 100)

\* 15% weight
experience_requirement_rule(u, c) ==
    IF u.experience_years >= c.min_experience
    THEN LET bonus == Min(Scale \div 5,
                          ((u.experience_years - c.min_experience) * Scale) \div 50)
         IN Ok((Min(Scale, (8 * Scale) \div 10 + bonus) * 15) \div 100)
    ELSE LET deficit == c.min_experience - u.experience_years
             penalty == Min((6 * Scale) \div 10, (deficit * Scale) \div 10)
         IN Ok((Max(0, (4 * Scale) \div 10 - penalty) * 15) \div 100)

education_hierarchy(tag) ==
    CASE tag = "high_school" -> 1
      [] tag = "associate" -> 2
      [] tag = "bachelor" -> 3
      [] tag = "master" -> 4
      [] tag = "phd" -> 5
      [] OTHER -> 1

\* 10% weight
education_compatibility_rule(u, c) ==
    IF c.min_education.kind # "str" THEN Raise       \* float NaN has no .lower()
    ELSE
      LET user_edu_level == education_hierarchy(Lower(u.education_level))
          required_edu_level == education_hierarchy(Lower(c.min_education.s))
      IN IF user_edu_level >= required_edu_level
         THEN Ok(Scale \div 10)
         ELSE Ok(Max(0, (((user_edu_level * Scale) \div required_edu_level) * 7)
                           \div 10) \div 10)

\* 5% weight
salary_expectation_rule(u, c) ==
    LET salary_min == c.typical_salary_range[1]
        salary_max == c.typical_salary_range[2]
    IN IF salary_min <= u.salary_expectation /\ u.salary_expectation <= salary_max
       THEN Ok((5 * Scale) \div 100)
       ELSE IF u.salary_expectation < salary_min
       THEN Ok((4 * Scale) \div 100)
       ELSE LET overage == u.salary_expectation - salary_max
            IN IF 5 * overage <= salary_max          \* overage <= salary_max * 0.2
               THEN Ok((3 * Scale) \div 100)
               ELSE Ok(Scale \div 100)

\* 3% weight
work_style_preference_rule(u, c) ==
    LET ws == c.work_style_compatibility IN
    IF ws.t = "null" THEN Raise                      \* "x in None" is a TypeError
    ELSE IF u.preferred_work_style \in DOMAIN ws.m
    THEN Ok((3 * Scale) \div 100)
    ELSE Ok(0)

\* 1% weight
market_demand_bonus_rule(u, c) == Ok((c.job_market_demand * Scale) \div 1000)

\* 1% weight
growth_potential_bonus_rule(u, c) == Ok((c.growth_potential * Scale) \div 1000)

\* _initialize_rules: the rules in the order calculate_career_score runs them
rules(u, c) ==
    << skill_match_rule(u, c),
       interest_alignment_rule(u, c),
       experience_requirement_rule(u, c),
       education_compatibility_rule(u, c),
       salary_expectation_rule(u, c),
       work_style_preference_rule(u, c),
       market_demand_bonus_rule(u, c),
       growth_potential_bonus_rule(u, c) >>

calculate_career_score(u, c) ==
    LET rs == rules(u, c)
        vals == [k \in 1..Len(rs) |-> rs[k].val]
        total_score == SumOver(vals, 1..Len(rs))
    IN IF \E k \in 1..Len(rs) : rs[k].raised THEN Raise
       ELSE Ok(Min(Scale, total_score))

-----------------------------------------------------------------------------
(* The CSV source.  A source is [status, missing, rows]: status is "ok" when  *)
(* pd.read_csv succeeds, "not_found" when the file is absent and "unreadable" *)
(* when it fails otherwise; missing is the set of required columns absent     *)
(* from the header; rows are the data rows, one cell per column.              *)

required_columns ==
    << "id", "title", "description", "required_skills", "relevant_interests",
       "min_experience", "min_education", "salary_min", "salary_max",
       "work_style_compatibility", "growth_potential", "job_market_demand" >>

numeric_fields ==
    << "min_experience", "salary_min", "salary_max",
       "growth_potential", "job_market_demand" >>

json_fields == << "required_skills", "relevant_interests", "work_style_compatibility" >>

\* A numeric cell: an integer, or text that is no number.
IntCell(n) == [kind |-> "int", n |-> n]
TextCell == [kind |-> "text", n |-> 0]

\* A JSON cell: text that parses to v, text that does not parse, or an empty
\* cell (pandas hands it over as the float NaN, not as a str).
JsonCell(v) == [kind |-> "json", v |-> v]
\* the float inf pandas reads from the text "inf": above every number of the
\* model in a comparison
Infinity == 1000000000
InfCell == [kind |-> "inf", n |-> Infinity]
BadJsonCell == [kind |-> "invalid", v |-> JsonNull]
EmptyJsonCell == [kind |-> "empty", v |-> JsonNull]

\* pd.to_numeric(errors='coerce') leaves NaN for anything that is no number
CoercesToNumber(cell) == cell.kind \in {"int", "inf"}

\* int(cell) in the loader: OverflowError on inf
IntConverts(cell) == cell.kind = "int"

\* json.loads(cell) in the loader: TypeError on a non-str, JSONDecodeError on bad text
JsonLoads(cell) == IF cell.kind = "json" THEN Ok(cell.v) ELSE Raise

\* step 4 of the validator: only str values are handed to json.loads
JsonCheckFails(cell) == cell.kind = "invalid"

RECURSIVE SelectIdx(_, _, _)
\* the indices k..n for which Test[k] holds, in order
SelectIdx(Test, k, n) ==
    IF k > n THEN << >>
    ELSE IF Test[k] THEN << k >> \o SelectIdx(Test, k + 1, n)
    ELSE SelectIdx(Test, k + 1, n)

\* df[mask][col].tolist()
Column(rows, Test, col) ==
    LET idx == SelectIdx(Test, 1, Len(rows))
    IN [k \in 1..Len(idx) |-> rows[idx[k]][col]]

SeqMin(f, n) == CHOOSE x \in {f[k] : k \in 1..n} : \A k \in 1..n : x <= f[k]
SeqMax(f, n) == CHOOSE x \in {f[k] : k \in 1..n} : \A k \in 1..n : x >= f[k]

NoStats == NoMap

\* step 6: the statistics (averages: int() of the mean; the experience
\* average in tenths)
Statistics(rows) ==
    LET n == Len(rows)
        smin == [k \in 1..n |-> rows[k].salary_min.n]
        smax == [k \in 1..n |-> rows[k].salary_max.n]
        exp == [k \in 1..n |-> rows[k].min_experience.n]
    IN [ total_careers |-> n,
         unique_education_levels |-> {rows[k].min_education : k \in 1..n},
         salary_range |-> [ min |-> SeqMin(smin, n), max |-> SeqMax(smax, n),
                            avg_min |-> SumOver(smin, 1..n) \div n,
                            avg_max |-> SumOver(smax, 1..n) \div n ],
         experience_range |-> [ min |-> SeqMin(exp, n), max |-> SeqMax(exp, n),
                                avg |-> (10 * SumOver(exp, 1..n)) \div n ] ]

\* step 6: int() of a minimum, a maximum or a mean that is inf raises
\* OverflowError; round() of the experience mean does not
StatisticsRaise(rows) ==
    LET n == Len(rows)
        inf(f) == {k \in 1..n : rows[k][f].kind = "inf"}
        min_is_inf(f) == inf(f) = 1..n
        max_is_inf(f) == inf(f) # {}
        mean_is_inf(f) == inf(f) # {}
    IN \/ min_is_inf("salary_min") \/ max_is_inf("salary_max")
       \/ mean_is_inf("salary_min") \/ mean_is_inf("salary_max")
       \/ min_is_inf("min_experience") \/ max_is_inf("min_experience")

Problem(kind, field, items) == [kind |-> kind, field |-> field, items |-> items]

RECURSIVE Collect(_, _, _)
\* the entries a loop over fields appends: Entry[f] for each field with Hit[f]
Collect(fields, Hit, Entry) ==
    IF fields = << >> THEN << >>
    ELSE (IF Hit[Head(fields)] THEN << Entry[Head(fields)] >> ELSE << >>)
         \o Collect(Tail(fields), Hit, Entry)

\* missing_columns naming only the first column it finds missing
missing_columns_first_only(src) ==
    LET first == CHOOSE k \in 1..Len(required_columns) :
                    /\ required_columns[k] \in src.missing
                    /\ \A j \in 1..(k - 1) : required_columns[j] \notin src.missing
    IN IF src.missing = {} THEN << >> ELSE << required_columns[first] >>

\* step 1: set(required_columns) - set(df.columns), listed in header order
missing_columns(src) ==
    LET Absent == [k \in 1..Len(required_columns) |-> required_columns[k] \in src.missing]
        idx == SelectIdx(Absent, 1, Len(required_columns))
    IN [k \in 1..Len(idx) |-> required_columns[idx[k]]]

\* duplicate_ids looking for rows that repeat a title
duplicate_ids_by_title(rows) ==
    Column(rows, [k \in 1..Len(rows) |-> \E j \in 1..(k - 1) : rows[j].title = rows[k].title],
           "id")

\* step 2: df[df.duplicated(subset=['id'])]['id'].tolist(): every row whose id
\* an earlier row already has
duplicate_ids(rows) ==
    Column(rows, [k \in 1..Len(rows) |-> \E j \in 1..(k - 1) : rows[j].id = rows[k].id], "id")

\* numeric_errors leaving the loop at the first field with such a value
numeric_errors_first_only(rows) ==
    LET bad(f) == [k \in 1..Len(rows) |-> ~CoercesToNumber(rows[k][f])]
        hit == SelectIdx([j \in 1..Len(numeric_fields) |->
                            \E k \in 1..Len(rows) : bad(numeric_fields[j])[k]],
                         1, Len(numeric_fields))
    IN IF hit = << >> THEN << >>
       ELSE << Problem("non_numeric", numeric_fields[hit[1]],
                       Column(rows, bad(numeric_fields[hit[1]]), "title")) >>

\* step 3: one error per numeric field with a value that is no number
numeric_errors(rows) ==
    LET bad(f) == [k \in 1..Len(rows) |-> ~CoercesToNumber(rows[k][f])]
        fs == {numeric_fields[k] : k \in 1..Len(numeric_fields)}
    IN Collect(numeric_fields,
               [f \in fs |-> \E k \in 1..Len(rows) : bad(f)[k]],
               [f \in fs |-> Problem("non_numeric", f, Column(rows, bad(f), "title"))])

\* step 4: one error per JSON field with text that does not parse
json_errors(rows) ==
    LET bad(f) == [k \in 1..Len(rows) |-> JsonCheckFails(rows[k][f])]
        fs == {json_fields[k] : k \in 1..Len(json_fields)}
    IN Collect(json_fields,
               [f \in fs |-> \E k \in 1..Len(rows) : bad(f)[k]],
               [f \in fs |-> Problem("invalid_json", f, Column(rows, bad(f), "title"))])

\* the range checks with the salary check flagging salary_min > salary_max
range_warnings_above_only(rows) ==
    LET salary == [k \in 1..Len(rows) |-> rows[k].salary_min.n > rows[k].salary_max.n]
        out(f) == [k \in 1..Len(rows) |-> ~(1 <= rows[k][f].n /\ rows[k][f].n <= 10)]
        scales == << "growth_potential", "job_market_demand" >>
        fs == {scales[k] : k \in 1..Len(scales)}
    IN (IF \E k \in 1..Len(rows) : salary[k]
        THEN << Problem("salary_range", "salary_min", Column(rows, salary, "title")) >>
        ELSE << >>)
       \o Collect(scales,
                  [f \in fs |-> \E k \in 1..Len(rows) : out(f)[k]],
                  [f \in fs |-> Problem("out_of_range", f, Column(rows, out(f), "title"))])

\* the range checks reporting every violation in one warning
range_warnings_merged(rows) ==
    LET bad == [k \in 1..Len(rows) |->
                   \/ rows[k].salary_min.n >= rows[k].salary_max.n
                   \/ ~(1 <= rows[k].growth_potential.n
                          /\ rows[k].growth_potential.n <= 10)
                   \/ ~(1 <= rows[k].job_market_demand.n
                          /\ rows[k].job_market_demand.n <= 10)]
    IN IF \E k \in 1..Len(rows) : bad[k]
       THEN << Problem("salary_range", "salary_min", Column(rows, bad, "title")) >>
       ELSE << >>

\* step 5: the range warnings
range_warnings(rows) ==
    LET salary == [k \in 1..Len(rows) |-> rows[k].salary_min.n >= rows[k].salary_max.n]
        out(f) == [k \in 1..Len(rows) |-> ~(1 <= rows[k][f].n /\ rows[k][f].n <= 10)]
        scales == << "growth_potential", "job_market_demand" >>
        fs == {scales[k] : k \in 1..Len(scales)}
    IN (IF \E k \in 1..Len(rows) : salary[k]
        THEN << Problem("salary_range", "salary_min", Column(rows, salary, "title")) >>
        ELSE << >>)
       \o Collect(scales,
                  [f \in fs |-> \E k \in 1..Len(rows) : out(f)[k]],
                  [f \in fs |-> Problem("out_of_range", f, Column(rows, out(f), "title"))])

\* after step 3: "if not results['valid']: return results"
StopsAfterNumericCheck(valid) == ~valid

\* step 6 runs whenever step 5 was reached
StatsComputed(valid) == TRUE

Report(valid, errors, warnings, stats) ==
    [valid |-> valid, errors |-> errors, warnings |-> warnings, stats |-> stats]

\* the call returns the report r
Returns(r) == [raised |-> FALSE, r |-> r]
\* the call raises: no report
Raises == [raised |-> TRUE, r |-> Report(TRUE, << >>, << >>, NoStats)]

validate_csv_structure(src) ==
    IF src.status = "not_found"
    THEN Returns(Report(FALSE, << Problem("not_found", "", << >>) >>, << >>, NoStats))
    ELSE IF src.status # "ok"
    THEN Returns(Report(FALSE, << Problem("read_failed", "", << >>) >>, << >>, NoStats))
    ELSE IF src.rows = << >>                            \* df.empty
    THEN Returns(Report(TRUE, << >>, << Problem("empty", "", << >>) >>, NoStats))
    ELSE IF missing_columns(src) # << >>
    THEN Returns(Report(FALSE, << Problem("missing_columns", "", missing_columns(src)) >>,
                        << >>, NoStats))
    ELSE
      LET rows == src.rows
          dups == duplicate_ids(rows)
          errors2 == IF dups # << >> THEN << Problem("duplicate_ids", "id", dups) >>
                     ELSE << >>
          errors3 == errors2 \o numeric_errors(rows)
          valid3 == errors3 = << >>
      IN IF StopsAfterNumericCheck(valid3)
         THEN Returns(Report(FALSE, errors3, << >>, NoStats))
         ELSE LET errors4 == errors3 \o json_errors(rows)
                  valid4 == errors4 = << >>
              IN IF ~StatsComputed(valid4)
                 THEN Returns(Report(valid4, errors4, range_warnings(rows), NoStats))
                 ELSE IF StatisticsRaise(rows) THEN Raises
                 ELSE Returns(Report(valid4, errors4, range_warnings(rows),
                                     Statistics(rows)))

-----------------------------------------------------------------------------
(* The catalog loader, core/rule_engine.py lines 55-111 *)

\* one CareerPath(...) construction, lines 62-74: every one of the 12 columns
\* is read from the row (KeyError when the header lacks it)
ConvertRow(src, row) ==
    IF src.missing # {} THEN Raise
    ELSE IF \/ JsonLoads(row.required_skills).raised
            \/ JsonLoads(row.relevant_interests).raised
            \/ JsonLoads(row.work_style_compatibility).raised
            \/ \E k \in 1..Len(numeric_fields) : ~IntConverts(row[numeric_fields[k]])
    THEN Raise
    ELSE Ok([ id |-> row.id,
              title |-> row.title,
              required_skills |-> JsonLoads(row.required_skills).val,
              relevant_interests |-> JsonLoads(row.relevant_interests).val,
              min_experience |-> row.min_experience.n,
              min_education |-> row.min_education,
              typical_salary_range |-> << row.salary_min.n, row.salary_max.n >>,
              work_style_compatibility |-> JsonLoads(row.work_style_compatibility).val,
              growth_potential |-> row.growth_potential.n,
              job_market_demand |-> row.job_market_demand.n ])

get_default_careers ==
    << [ id |-> "software_engineer",
         title |-> "Software Engineer",
         required_skills |-> JsonObject([s \in {"programming", "problem_solving"} |->
                                           IF s = "programming" THEN 2 ELSE 3]),
         relevant_interests |-> JsonObject([i \in {"technology", "innovation"} |-> 3]),
         min_experience |-> 2,
         min_education |-> Str("bachelor"),
         typical_salary_range |-> << 70000, 120000 >>,
         work_style_compatibility |-> JsonArray({"remote", "hybrid", "onsite"}),
         growth_potential |-> 9,
         job_market_demand |-> 9 ],
       [ id |-> "data_scientist",
         title |-> "Data Scientist",
         required_skills |-> JsonObject([s \in {"statistics", "programming"} |->
                                           IF s = "statistics" THEN 3 ELSE 2]),
         relevant_interests |-> JsonObject([i \in {"analytics", "research"} |-> 3]),
         min_experience |-> 3,
         min_education |-> Str("bachelor"),
         typical_salary_range |-> << 80000, 140000 >>,
         work_style_compatibility |-> JsonArray({"remote", "hybrid"}),
         growth_potential |-> 10,
         job_market_demand |-> 8 ] >>

\* a read that leaves the file without its rows
file_after_read_emptied(src) == [src EXCEPT !.rows = << >>]

\* line 58, pd.read_csv(self.career_db_path): the file is read, not written
file_after_read(src) == src

\* a loader that empties and refills the published list instead
private_list_in_place(heap, published) ==
    IF published = Unset THEN Len(heap) + 1 ELSE published

\* line 59, "career_paths = []": the loader's list is a new object of the heap,
\* whatever list the engine has published
private_list(heap, published) == Len(heap) + 1

\* an except branch that keeps what was converted and falls back only when
\* nothing was
except_result_keep_converted(converted) ==
    IF converted = << >> THEN get_default_careers ELSE converted

\* lines 78-80: what the except branch returns, given the rows converted so far
except_result(converted) == get_default_careers

-----------------------------------------------------------------------------
(* The ranker, core/rule_engine.py lines 235-281 *)

Note(text, n) == [text |-> text, n |-> n]

\* skill_score > 0.8 for skill_score = sub-score / 0.4 (lines 258-259), on the
\* doubles the code computes: 0.8 * 0.4 is 0.32000000000000006 and that
\* divided by 0.4 is 0.8000000000000002, so a sub-score of 0.8 * 0.4 counts as
\* above; 0.5 * 0.4 / 0.4 is 0.5 and x * 0.25 / 0.25 is x, so the other three
\* comparisons are exact
skill_score_above(skill) == 100 * skill >= 32 * Scale

\* the explanation with the considerations at or below one half
generate_explanation_at_most_half(u, c, score) ==
    LET skill == skill_match_rule(u, c).val
        interest == interest_alignment_rule(u, c).val
        salary_max == c.typical_salary_range[2]
    IN [ overall |-> score,
         strengths |->
             (IF skill_score_above(skill)
              THEN << Note("Strong skill alignment", 0) >> ELSE << >>)
             \o (IF 100 * interest > 20 * Scale
                 THEN << Note("Excellent interest match", 0) >> ELSE << >>),
         considerations |->
             (IF 100 * skill <= 20 * Scale
              THEN << Note("May need to develop additional skills", 0) >> ELSE << >>)
             \o (IF 200 * interest <= 25 * Scale
                 THEN << Note("Interest alignment could be better", 0) >> ELSE << >>)
             \o (IF u.experience_years < c.min_experience
                 THEN << Note("Needs more years of experience",
                              c.min_experience - u.experience_years) >>
                 ELSE << >>)
             \o (IF u.salary_expectation > salary_max
                 THEN << Note("Salary expectations may be above typical range", 0) >>
                 ELSE << >>) ]

\* _generate_explanation: the strengths and considerations of one career
generate_explanation(u, c, score) ==
    LET skill == skill_match_rule(u, c).val
        interest == interest_alignment_rule(u, c).val
        salary_max == c.typical_salary_range[2]
    IN [ overall |-> score,
         strengths |->
             (IF skill_score_above(skill)
              THEN << Note("Strong skill alignment", 0) >> ELSE << >>)
             \o (IF 100 * interest > 20 * Scale
                 THEN << Note("Excellent interest match", 0) >> ELSE << >>),
         considerations |->
             (IF ~skill_score_above(skill) /\ 100 * skill < 20 * Scale
              THEN << Note("May need to develop additional skills", 0) >> ELSE << >>)
             \o (IF ~(100 * interest > 20 * Scale) /\ 200 * interest < 25 * Scale
                 THEN << Note("Interest alignment could be better", 0) >> ELSE << >>)
             \o (IF u.experience_years < c.min_experience
                 THEN << Note("Needs more years of experience",
                              c.min_experience - u.experience_years) >>
                 ELSE << >>)
             \o (IF u.salary_expectation > salary_max
                 THEN << Note("Salary expectations may be above typical range", 0) >>
                 ELSE << >>) ]

\* Entry with a score that grows with the strengths of the explanation
EntryScoredByExplanation(c, score, explanation) ==
    [career |-> c, score |-> score + Len(explanation.strengths),
     explanation |-> explanation]

\* line 242: the tuple (career, score, explanation)
Entry(c, score, explanation) == [career |-> c, score |-> score, explanation |-> explanation]

RECURSIVE InsertDescBeforeEqual(_, _)
\* InsertDesc putting x in front of the entries that score the same
InsertDescBeforeEqual(sorted, x) ==
    IF sorted = << >> THEN << x >>
    ELSE IF Head(sorted).score > x.score
    THEN << Head(sorted) >> \o InsertDescBeforeEqual(Tail(sorted), x)
    ELSE << x >> \o sorted

RECURSIVE InsertDesc(_, _)
\* x goes behind every entry that scores at least as much (the sort is stable)
InsertDesc(sorted, x) ==
    IF sorted = << >> THEN << x >>
    ELSE IF Head(sorted).score >= x.score
    THEN << Head(sorted) >> \o InsertDesc(Tail(sorted), x)
    ELSE << x >> \o sorted

RECURSIVE SortByScoreDesc(_)
\* line 245: scored_careers.sort(key=lambda x: x[1], reverse=True)
SortByScoreDesc(seq) ==
    IF seq = << >> THEN << >>
    ELSE InsertDesc(SortByScoreDesc(SubSeq(seq, 1, Len(seq) - 1)), seq[Len(seq)])

\* Slice cutting one entry late
SliceOneMore(seq, top_n) == SubSeq(seq, 1, Min(top_n + 1, Len(seq)))

\* line 247: scored_careers[:top_n]
Slice(seq, top_n) ==
    IF top_n >= 0 THEN SubSeq(seq, 1, Min(top_n, Len(seq)))
    ELSE SubSeq(seq, 1, Max(0, Len(seq) + top_n))

-----------------------------------------------------------------------------
(* Bounds and inputs *)

MaxRows == 2        \* rows of a source
MaxTopN == 2        \* largest top_n asked for
MaxLoads == 2       \* constructions (reloads) in a run
MaxCalls == 1       \* get_recommendations calls in a run

SkillMaps == UNION {[S -> SkillLevel] : S \in SUBSET SkillNames}
InterestMaps == UNION {[S -> InterestLevel] : S \in SUBSET {"technology"}}

Profile(skills, interests, years, education, style, salary) ==
    [ skills |-> skills, interests |-> interests, experience_years |-> years,
      education_level |-> education, preferred_work_style |-> style,
      salary_expectation |-> salary ]

\* the profile of tests/test_rule_engine.py, and a newcomer
TestUser ==
    Profile([s \in SkillNames |-> IF s = "programming" THEN 2 ELSE 3],
            [i \in {"technology"} |-> 3], 3, "bachelor", "remote", 85000)
Newcomer == Profile(NoMap, NoMap, 0, "high_school", "onsite", 150000)

Users == {TestUser, Newcomer}

ScoringUsers ==
    { Profile(sk, it, y, e, w, sal) :
        sk \in SkillMaps, it \in InterestMaps, y \in {0, 3, 13},
        e \in {"high_school", "PhD", "bootcamp"}, w \in {"remote", "onsite"},
        sal \in {50000, 130000, 150000} }

BaseRow ==
    [ id |-> "swe", title |-> "Software Engineer",
      required_skills |-> JsonCell(JsonObject(
          [s \in SkillNames |-> IF s = "programming" THEN 2 ELSE 3])),
      relevant_interests |-> JsonCell(JsonObject([i \in {"technology"} |-> 3])),
      min_experience |-> IntCell(2),
      min_education |-> Str("bachelor"),
      salary_min |-> IntCell(70000), salary_max |-> IntCell(120000),
      work_style_compatibility |-> JsonCell(JsonArray({"remote", "hybrid"})),
      growth_potential |-> IntCell(9), job_market_demand |-> IntCell(8) ]

AnalystRow ==
    [ BaseRow EXCEPT !.id = "analyst", !.title = "Data Analyst",
        !.required_skills = JsonCell(JsonObject([s \in {"statistics"} |-> 1])),
        !.relevant_interests =
            JsonCell(JsonObject([i \in InterestNames |-> IF i = "research" THEN 4 ELSE 2])),
        !.min_experience = IntCell(0), !.min_education = Str("high_school"),
        !.work_style_compatibility = JsonCell(JsonArray({"onsite"})) ]

\* the rows a source of SpecCatalog is made of
RowChoices ==
    { BaseRow,
      AnalystRow,
      [AnalystRow EXCEPT !.id = "swe"],
      [AnalystRow EXCEPT !.title = "Bad Number", !.salary_min = TextCell,
                         !.job_market_demand = TextCell],
      [BaseRow EXCEPT !.title = "Bad Json", !.relevant_interests = BadJsonCell,
                      !.salary_min = IntCell(130000)],
      [BaseRow EXCEPT !.title = "Bad Range", !.growth_potential = IntCell(-1000),
                      !.salary_min = IntCell(120000)],
      [AnalystRow EXCEPT !.title = "Zero Importance",
          !.relevant_interests = JsonCell(JsonObject([i \in {"technology"} |-> 0]))],
      [AnalystRow EXCEPT !.title = "Empty Cell", !.work_style_compatibility = EmptyJsonCell],
      [AnalystRow EXCEPT !.title = "Open Salary", !.salary_max = InfCell] }

RowSeqs(R, n) == UNION {[1..k -> R] : k \in 0..n}

Source(status, missing, rows) == [status |-> status, missing |-> missing, rows |-> rows]

CatalogSources ==
    { Source("ok", m, rows) :
        m \in {{}, {"title"}, {"description", "salary_max"}},
        rows \in RowSeqs(RowChoices, MaxRows) }
    \cup { Source(st, {}, << >>) : st \in {"not_found", "unreadable"} }

\* the sources of Spec, where loads and calls interleave
ReloadSources ==
    { Source("ok", {}, rows) :
        rows \in RowSeqs({BaseRow, AnalystRow,
                          [AnalystRow EXCEPT !.title = "Bad Number",
                                             !.salary_min = TextCell]}, MaxRows) }
    \cup { Source("not_found", {}, << >>) }

\* careers handed to calculate_career_score in SpecScoring: what the loader
\* builds from these rows, and the fallback careers
ScoringRows ==
    { BaseRow,
      AnalystRow,
      [BaseRow EXCEPT !.growth_potential = IntCell(-1000)],
      [BaseRow EXCEPT !.growth_potential = IntCell(11), !.job_market_demand = IntCell(0)],
      [BaseRow EXCEPT !.required_skills = JsonCell(JsonObject(
                          [s \in SkillNames |-> IF s = "programming" THEN 0 ELSE 4])),
                      !.min_experience = IntCell(6), !.min_education = Str("PhD")],
      [BaseRow EXCEPT !.required_skills = JsonCell(JsonObject(NoMap)),
                      !.relevant_interests = JsonCell(JsonNull)],
      [BaseRow EXCEPT !.required_skills = JsonCell(JsonArray({"programming"}))],
      [BaseRow EXCEPT !.relevant_interests =
                          JsonCell(JsonObject([i \in {"technology"} |-> 0]))],
      [BaseRow EXCEPT !.relevant_interests =
                          JsonCell(JsonObject([i \in {"technology"} |-> -1]))],
      [BaseRow EXCEPT !.min_education = NaNCell],
      [BaseRow EXCEPT !.work_style_compatibility = JsonCell(JsonNull)] }

\* every required-skill map over SkillNames with levels the JSON may carry
\* (0 and 5 are outside the SkillLevel scale)
RequiredSkillMaps == UNION {[S -> 0..5] : S \in SUBSET SkillNames}

\* the inputs of SpecSkills: every skill map of a profile against every
\* required-skill map of a career
SkillUsers == { [TestUser EXCEPT !.skills = sk] : sk \in SkillMaps }
SkillCareers ==
    { ConvertRow(Source("ok", {}, << r >>), r).val :
        r \in { [BaseRow EXCEPT !.required_skills = JsonCell(JsonObject(m))] :
                  m \in RequiredSkillMaps } }

ScoringCareers ==
    { ConvertRow(Source("ok", {}, << r >>), r).val : r \in ScoringRows }
    \cup { get_default_careers[k] : k \in 1..Len(get_default_careers) }

-----------------------------------------------------------------------------
(* The conversation framework, core/chatbot_framework.py *)

MaxMessages == 3    \* process_message calls in a run

Sessions == {"s1", "s2"}
\* a message that is no str (None): message.lower() is an AttributeError
NotAString == "<None>"
Messages == {"Hello", "Career advice please", NotAString}

\* one dict of message_history; keys are the keys it has
HistoryEntry(role, content) ==
    [keys |-> {"role", "content"}, role |-> role, content |-> content]
NoRoleEntry == [keys |-> {}, role |-> "", content |-> ""]

Histories ==
    { << >>,
      << HistoryEntry("user", "I like technology") >>,
      << HistoryEntry("user", "Career advice please"), HistoryEntry("assistant", "Hello") >>,
      << NoRoleEntry >> }

\* detect_intent on the texts of this model: the first intent of
\* _load_intents with a pattern that matches the lower-cased text
detect_intent(message) ==
    IF message = NotAString THEN Raise
    ELSE Ok(CASE message = "Hello" -> "greeting"
              [] message = "Career advice please" -> "career_advice"
              [] OTHER -> "default")

\* _extract_keywords on the texts of this model
extract_keywords(text) ==
    IF text = "I like technology" THEN {"technology"} ELSE {}

\* get_context: msg['role'] is a KeyError for a dict without that key
get_context(session_id, message_history) ==
    LET n == Len(message_history)
        recent_messages == IF n > 5 THEN SubSeq(message_history, n - 4, n)
                           ELSE message_history
        m == Len(recent_messages)
        IsUser == [k \in 1..m |-> recent_messages[k].role = "user"]
        users == SelectIdx(IsUser, 1, m)
    IN IF \E k \in 1..m : "role" \notin recent_messages[k].keys THEN Raise
       ELSE IF \E k \in 1..Len(users) :
                  detect_intent(recent_messages[users[k]].content).raised THEN Raise
       ELSE Ok([ session_id |-> session_id,
                 message_count |-> n,
                 recent_intents |->
                     [k \in 1..Len(users) |->
                         detect_intent(recent_messages[users[k]].content).val],
                 mentioned_topics |->
                     UNION {extract_keywords(recent_messages[k].content) :
                              k \in {j \in 1..m : IsUser[j]}} ])

\* generate_response: which family of templates the response is drawn from
\* (random.choice picks the text) and whether topics are appended
generate_response(intent, context, message) ==
    IF intent = "greeting"
    THEN (IF context.message_count > 1 THEN [from |-> "hello_again", topics |-> FALSE]
          ELSE [from |-> "greeting", topics |-> FALSE])
    ELSE IF context.message_count > 1
            /\ \E k \in 1..Len(context.recent_intents) : context.recent_intents[k] = intent
    THEN [from |-> "followup", topics |-> FALSE]
    ELSE [from |-> intent, topics |-> context.mentioned_topics # {}]

Apology == [from |-> "apology", topics |-> FALSE]
NoReply == [from |-> "", topics |-> FALSE]

\* a session id that is no key of conversation_state
NoSession == [present |-> FALSE, start_time |-> 0, intents |-> << >>, topics |-> {}]

\* lines 263-271 of process_message
updated_state(state, session_id, intent, context, now) ==
    LET entry == IF ~state[session_id].present
                 THEN [present |-> TRUE, start_time |-> now, intents |-> << >>,
                       topics |-> {}]
                 ELSE state[session_id]
    IN [state EXCEPT ![session_id] =
           [entry EXCEPT !.intents = Append(@, intent),
                         !.topics = @ \cup context.mentioned_topics]]

\* process_message with the session entry created before the steps that may
\* fail
process_message_entry_first(state, message, session_id, message_history, now) ==
    LET intent == detect_intent(message)
        context == get_context(session_id, message_history)
        entered == IF ~state[session_id].present
                   THEN [state EXCEPT ![session_id] =
                           [present |-> TRUE, start_time |-> now, intents |-> << >>,
                            topics |-> {}]]
                   ELSE state
    IN IF intent.raised \/ context.raised
       THEN [reply |-> Apology, state |-> entered, answered |-> FALSE]
       ELSE [reply |-> generate_response(intent.val, context.val, message),
             state |-> updated_state(state, session_id, intent.val, context.val, now),
             answered |-> TRUE]

\* process_message: the reply it returns and conversation_state after it;
\* every statement lies in the try block, whose except branch returns the
\* apology; answered tells the two returns apart
process_message(state, message, session_id, message_history, now) ==
    LET intent == detect_intent(message)
        context == get_context(session_id, message_history)
    IN IF intent.raised \/ context.raised
       THEN [reply |-> Apology, state |-> state, answered |-> FALSE]
       ELSE [reply |-> generate_response(intent.val, context.val, message),
             state |-> updated_state(state, session_id, intent.val, context.val, now),
             answered |-> TRUE]

\* reset_session emptying the entry instead of deleting it
reset_state_keep_entry(state, session_id) ==
    [state EXCEPT ![session_id].intents = << >>, ![session_id].topics = {}]

\* reset_session: del self.conversation_state[session_id], if it is there
reset_state(state, session_id) == [state EXCEPT ![session_id] = NoSession]

Count(seq, x) == Cardinality({k \in 1..Len(seq) : seq[k] = x})

EmptySummary ==
    [empty |-> TRUE, session_id |-> "", start_time |-> 0, total_intents |-> 0,
     unique_intents |-> 0, topics_discussed |-> {}, most_common_intent |-> ""]

\* get_session_summary; most_common_intent is max over a set with the count
\* as key: one of the intents with the highest count, "" for None
session_summaries(state, session_id) ==
    LET st == state[session_id]
        used == {st.intents[k] : k \in 1..Len(st.intents)}
        top == {i \in used : \A j \in used : Count(st.intents, i) >= Count(st.intents, j)}
    IN IF ~st.present THEN {EmptySummary}
       ELSE { [empty |-> FALSE, session_id |-> session_id, start_time |-> st.start_time,
               total_intents |-> Len(st.intents),
               unique_intents |-> Cardinality(used),
               topics_discussed |-> st.topics,
               most_common_intent |-> i] :
                 i \in IF used = {} THEN {""} ELSE top }

-----------------------------------------------------------------------------
(* State machine *)

NotScored == [done |-> FALSE, raised |-> FALSE, val |-> 0, subs |-> << >>]
\* report: the outcome of the latest validate_csv_structure call (raised, r);
\* first: the outcome of the first call; first_loaded: an engine had been
\* constructed by then; again: a call was made after a construction that
\* followed the first call
NotValidated == [called |-> FALSE, raised |-> FALSE,
                 r |-> Report(TRUE, << >>, << >>, NoStats),
                 first |-> Raises, first_loaded |-> FALSE, again |-> FALSE]
NoRecs == [done |-> FALSE, raised |-> FALSE, top_n |-> 0, of |-> Unset, out |-> << >>]

\* ChatbotFramework(): lines 13-17
InitChat ==
    /\ conversation_state = [s \in Sessions |-> NoSession]
    /\ session_calls = [s \in Sessions |-> [completed |-> 0, answered |-> 0,
                                            was_reset |-> FALSE]]
    /\ reply = NoReply
    /\ summary = EmptySummary
    /\ clock = 0

InitControl(loads, calls) ==
    /\ scored = NotScored
    /\ report = NotValidated
    /\ lists = << >>
    /\ career_paths = Unset
    /\ lpc = "idle"
    /\ llocal = Unset
    /\ lrow = 1
    /\ lresult = Unset
    /\ loads_left = loads
    /\ rpc = "idle"
    /\ riter = Unset
    /\ ridx = 1
    /\ racc = << >>
    /\ rn = 0
    /\ recs = NoRecs
    /\ calls_left = calls
    /\ InitChat

\* calculate_career_score(user, career); subs keeps what each rule returned
\* (0 for a rule that raised)
Score ==
    /\ ~scored.done
    /\ LET res == calculate_career_score(user, career)
           rs == rules(user, career)
       IN scored' = [done |-> TRUE, raised |-> res.raised, val |-> res.val,
                     subs |-> [k \in 1..Len(rs) |-> rs[k].val]]
    /\ UNCHANGED <<chat_vars, input_vars, report, loader_vars, reader_vars>>

\* CareerDatabaseManager(csv_path).validate_csv_structure(), called between
\* the calls on the engine (the validator shares only the file with them)
Validate ==
    /\ lpc = "idle" /\ rpc = "idle"
    /\ LET res == validate_csv_structure(source)
           loaded == career_paths # Unset
       IN report' = IF ~report.called
                    THEN [called |-> TRUE, raised |-> res.raised, r |-> res.r,
                          first |-> res, first_loaded |-> loaded, again |-> FALSE]
                    ELSE [report EXCEPT !.raised = res.raised, !.r = res.r,
                            !.again = @ \/ (loaded /\ ~report.first_loaded)]
    /\ UNCHANGED <<chat_vars, input_vars, scored, loader_vars, reader_vars>>

\* RuleEngine(career_db_path): line 58, pd.read_csv, and line 59
LoadBegin ==
    /\ lpc = "idle"
    /\ loads_left > 0
    /\ loads_left' = loads_left - 1
    /\ lrow' = 1
    /\ IF source.status = "ok"
       THEN LET new == private_list(lists, career_paths)
            IN /\ llocal' = new
               /\ lists' = IF new > Len(lists) THEN Append(lists, << >>)
                           ELSE [lists EXCEPT ![new] = << >>]
               /\ lpc' = "rows"
               /\ source' = file_after_read(source)
       ELSE /\ lpc' = "except"
            /\ UNCHANGED <<llocal, lists, source>>
    /\ UNCHANGED <<chat_vars, user, career, scored, report, career_paths, lresult,
                   reader_vars>>

\* one turn of the loop of lines 61-75
LoadRow ==
    /\ lpc = "rows"
    /\ lrow <= Len(source.rows)
    /\ LET c == ConvertRow(source, source.rows[lrow])
       IN IF c.raised
          THEN /\ lpc' = "except"
               /\ UNCHANGED <<lists, lrow>>
          ELSE /\ lists' = [lists EXCEPT ![llocal] = Append(@, c.val)]
               /\ lrow' = lrow + 1
               /\ lpc' = "rows"
    /\ UNCHANGED <<chat_vars, input_vars, scored, report, career_paths, llocal, lresult,
                   loads_left, reader_vars>>

\* line 77: return career_paths
LoadReturn ==
    /\ lpc = "rows"
    /\ lrow > Len(source.rows)
    /\ lresult' = llocal
    /\ lpc' = "assign"
    /\ UNCHANGED <<chat_vars, input_vars, scored, report, lists, career_paths, llocal, lrow,
                   loads_left, reader_vars>>

\* lines 78-80: the except branch returns the fallback list
LoadExcept ==
    /\ lpc = "except"
    /\ LET converted == IF llocal = Unset THEN << >> ELSE lists[llocal]
       IN lists' = Append(lists, except_result(converted))
    /\ lresult' = Len(lists) + 1
    /\ lpc' = "assign"
    /\ UNCHANGED <<chat_vars, input_vars, scored, report, career_paths, llocal, lrow,
                   loads_left, reader_vars>>

\* line 52, self.career_paths = ..., and the constructor's return: the engine
\* comes into use
LoadAssign ==
    /\ lpc = "assign"
    /\ career_paths' = lresult
    /\ lpc' = "idle"
    /\ llocal' = Unset
    /\ UNCHANGED <<chat_vars, input_vars, scored, report, lists, lrow, lresult, loads_left,
                   reader_vars>>

\* get_recommendations(user, top_n): lines 237-239, the for loop takes the
\* iterator of self.career_paths
RecBegin(top_n) ==
    /\ rpc = "idle"
    /\ calls_left > 0
    /\ career_paths # Unset
    /\ calls_left' = calls_left - 1
    /\ riter' = career_paths
    /\ ridx' = 1
    /\ racc' = << >>
    /\ rn' = top_n
    /\ rpc' = "loop"
    /\ UNCHANGED <<chat_vars, input_vars, scored, report, loader_vars, recs>>

\* one turn of the loop of lines 239-242; an exception of a rule leaves the call
RecStep ==
    /\ rpc = "loop"
    /\ ridx <= Len(lists[riter])
    /\ LET c == lists[riter][ridx]
           s == calculate_career_score(user, c)
       IN IF s.raised
          THEN /\ recs' = [done |-> TRUE, raised |-> TRUE, top_n |-> rn,
                           of |-> riter, out |-> << >>]
               /\ rpc' = "idle"
               /\ UNCHANGED <<ridx, racc>>
          ELSE /\ racc' = Append(racc, Entry(c, s.val, generate_explanation(user, c, s.val)))
               /\ ridx' = ridx + 1
               /\ UNCHANGED <<rpc, recs>>
    /\ UNCHANGED <<chat_vars, input_vars, scored, report, loader_vars, riter, rn, calls_left>>

\* lines 245-247: sort, cut, return
RecReturn ==
    /\ rpc = "loop"
    /\ ridx > Len(lists[riter])
    /\ recs' = [done |-> TRUE, raised |-> FALSE, top_n |-> rn, of |-> riter,
                out |-> Slice(SortByScoreDesc(racc), rn)]
    /\ rpc' = "idle"
    /\ UNCHANGED <<chat_vars, input_vars, scored, report, loader_vars, riter, ridx, racc, rn,
                   calls_left>>

\* process_message(message, session_id, message_history): the try block of
\* lines 249-273, or the except branch of lines 275-277.  clock is the time
\* datetime.now() reads; session_calls counts the calls for session_id that
\* have returned since its last reset, and those that returned a response.
ProcessMessage(message, session_id, message_history) ==
    /\ clock < MaxMessages
    /\ clock' = clock + 1
    /\ LET out == process_message(conversation_state, message, session_id,
                                  message_history, clock + 1)
       IN /\ reply' = out.reply
          /\ conversation_state' = out.state
          /\ session_calls' =
                [session_calls EXCEPT
                   ![session_id].completed = @ + 1,
                   ![session_id].answered = IF out.answered THEN @ + 1 ELSE @]
    /\ UNCHANGED <<summary, input_vars, scored, report, loader_vars, reader_vars>>

\* get_session_summary(session_id)
GetSessionSummary(session_id) ==
    /\ summary' \in session_summaries(conversation_state, session_id)
    /\ UNCHANGED <<conversation_state, session_calls, reply, clock, input_vars, scored,
                   report, loader_vars, reader_vars>>

\* reset_session(session_id)
ResetSession(session_id) ==
    /\ conversation_state' = reset_state(conversation_state, session_id)
    /\ session_calls' = [session_calls EXCEPT ![session_id] =
                            [completed |-> 0, answered |-> 0, was_reset |-> TRUE]]
    /\ UNCHANGED <<reply, summary, clock, input_vars, scored, report, loader_vars,
                   reader_vars>>

CallsFor(session_id) ==
    \/ \E m \in Messages, h \in Histories : ProcessMessage(m, session_id, h)
    \/ GetSessionSummary(session_id)
    \/ ResetSession(session_id)

TopNs == (-1)..MaxTopN

Loader == LoadBegin \/ LoadRow \/ LoadReturn \/ LoadExcept \/ LoadAssign
Reader == (\E n \in TopNs : RecBegin(n)) \/ RecStep \/ RecReturn

\* Loads and calls interleave: an engine in use answers requests while a new
\* one is being constructed from the same source.
Init ==
    /\ source \in ReloadSources
    /\ user \in Users
    /\ career = get_default_careers[1]
    /\ InitControl(MaxLoads, MaxCalls)

Next == Loader \/ Reader

Spec == Init /\ [][Next]_vars

\* One validation, one construction and one request over every source.
InitCatalog ==
    /\ source \in CatalogSources
    /\ user \in Users
    /\ career = get_default_careers[1]
    /\ InitControl(1, 1)

NextCatalog == Validate \/ Loader \/ Reader

SpecCatalog == InitCatalog /\ [][NextCatalog]_vars

\* calculate_career_score on every profile and career of the scoring inputs.
InitScoring ==
    /\ source = Source("not_found", {}, << >>)
    /\ user \in ScoringUsers
    /\ career \in ScoringCareers
    /\ InitControl(0, 0)

NextScoring == Score

SpecScoring == InitScoring /\ [][NextScoring]_vars

\* _skill_match_rule on every skill map against every required-skill map.
InitSkills ==
    /\ source = Source("not_found", {}, << >>)
    /\ user \in SkillUsers
    /\ career \in SkillCareers
    /\ InitControl(0, 0)

SpecSkills == InitSkills /\ [][NextScoring]_vars

\* a career that requires three skills, one of them at EXPERT and outside
\* the skills a profile of this model holds
ThreeSkillRow ==
    [BaseRow EXCEPT !.title = "Team Lead",
        !.required_skills = JsonCell(JsonObject(
            [s \in SkillNames \cup {"communication"} |->
                IF s = "communication" THEN EXPERT ELSE BEGINNER]))]

\* the inputs of SpecExplain: every skill map and interest map of a profile
\* against one-row sources over every required-skill map and the
\* three-skill career, and a source that cannot be read
ExplainUsers ==
    { [TestUser EXCEPT !.skills = sk, !.interests = it] :
        sk \in SkillMaps, it \in InterestMaps }
ExplainSources ==
    { Source("ok", {}, << [BaseRow EXCEPT !.required_skills = JsonCell(JsonObject(m))] >>) :
        m \in RequiredSkillMaps }
    \cup { Source("ok", {}, << ThreeSkillRow >>), Source("not_found", {}, << >>) }

\* One construction and one get_recommendations call per profile and source.
InitExplain ==
    /\ source \in ExplainSources
    /\ user \in ExplainUsers
    /\ career = get_default_careers[1]
    /\ InitControl(1, 1)

NextExplain == Loader \/ Reader

SpecExplain == InitExplain /\ [][NextExplain]_vars

MaxYears == 16         \* years of experience of a profile
MaxMinExperience == 6  \* minimum years a career asks for

\* the inputs of SpecExperience
ExperienceUsers == { [TestUser EXCEPT !.experience_years = y] : y \in 0..MaxYears }
ExperienceCareers ==
    { ConvertRow(Source("ok", {}, << r >>), r).val :
        r \in { [BaseRow EXCEPT !.min_experience = IntCell(m)] :
                  m \in 0..MaxMinExperience } }

\* _experience_requirement_rule on every number of years against every minimum.
InitExperience ==
    /\ source = Source("not_found", {}, << >>)
    /\ user \in ExperienceUsers
    /\ career \in ExperienceCareers
    /\ InitControl(0, 0)

SpecExperience == InitExperience /\ [][NextScoring]_vars

\* Calls on one ChatbotFramework, for any session ids in any order.
InitChatbot ==
    /\ source = Source("not_found", {}, << >>)
    /\ user = TestUser
    /\ career = get_default_careers[1]
    /\ InitControl(0, 0)

NextChatbot == \E s \in Sessions : CallsFor(s)

SpecChatbot == InitChatbot /\ [][NextChatbot]_vars

-----------------------------------------------------------------------------
(* Sanity of the model *)

\* Every division the rules make on career c is exact, so the integers of
\* the model are the rationals of the formulas.
ExactFor(c) ==
    LET rs == c.required_skills
        ri == c.relevant_interests
    IN /\ Scale % 1000 = 0
       /\ (rs.t = "dict" /\ ~Falsy(rs)) => Scale % (10 * Cardinality(DOMAIN rs.m)) = 0
       /\ (ri.t = "dict" /\ ~Falsy(ri)) =>
            \A i \in DOMAIN ri.m :
               ri.m[i] # 0 =>
                  Scale % (4 * Max(ri.m[i], -ri.m[i]) * Cardinality(DOMAIN ri.m)) = 0
       /\ \A r \in 1..5 : (7 * Scale) % (100 * r) = 0

ExactArithmetic ==
    /\ ExactFor(career)
    /\ \A i \in 1..Len(lists) : \A k \in 1..Len(lists[i]) : ExactFor(lists[i][k])

-----------------------------------------------------------------------------
(* Claims *)

\* C1: for every profile and every career the loader can build,
\* calculate_career_score returns a score s with 0.0 <= s <= 1.0 (here: every
\* call that returns, returns such a score).
C1_ScoreInUnitInterval ==
    (scored.done /\ ~scored.raised) => (0 <= scored.val /\ scored.val <= Scale)

\* The catalog a finished get_recommendations call iterated
RecCatalog == lists[recs.of]

CatalogScore(c) == calculate_career_score(user, c).val

\* the number of positions of seq holding x
Occurrences(seq, x) == Cardinality({k \in 1..Len(seq) : seq[k] = x})

\* careers whose fields have the types and levels of the data model, on which
\* no rule raises
WellFormedCareer(c) ==
    /\ c.required_skills.t = "dict"
    /\ \A s \in DOMAIN c.required_skills.m : c.required_skills.m[s] \in SkillLevel
    /\ c.relevant_interests.t = "dict"
    /\ \A i \in DOMAIN c.relevant_interests.m : c.relevant_interests.m[i] \in InterestLevel
    /\ c.min_education.kind = "str"
    /\ c.work_style_compatibility.t = "list"

\* C2: for every profile, catalog and top_n >= 0, get_recommendations returns
\* exactly min(top_n, |catalog|) entries, in non-increasing order of score, and
\* they are the highest-scoring careers of the catalog: each returned entry is
\* a career of the catalog with its score, and every career that scores
\* strictly higher than a returned entry stands before it in the result.  On a
\* catalog of well-formed careers the call always returns.
C2_TopNSortedBest ==
    (recs.done /\ recs.top_n >= 0
       /\ (~recs.raised \/ \A j \in 1..Len(RecCatalog) : WellFormedCareer(RecCatalog[j])))
    => LET cat == RecCatalog
           out == recs.out
           picked == [k \in 1..Len(out) |-> out[k].career]
       IN /\ ~recs.raised
          /\ Len(out) = Min(recs.top_n, Len(cat))
          /\ \A k \in 1..(Len(out) - 1) : out[k].score >= out[k + 1].score
          /\ \A k \in 1..Len(out) :
                /\ out[k].score = CatalogScore(out[k].career)
                /\ Occurrences(picked, out[k].career) <= Occurrences(cat, out[k].career)
                /\ Cardinality({j \in 1..Len(cat) : CatalogScore(cat[j]) > out[k].score})
                     <= k - 1

\* C2 witness: a call that returned fewer entries than the catalog holds, and
\* put the catalog's second career first.
C2_Witness ==
    /\ recs.done /\ ~recs.raised
    /\ recs.top_n >= 1
    /\ Len(RecCatalog) > recs.top_n
    /\ recs.out[1].career = RecCatalog[2]
    /\ CatalogScore(RecCatalog[2]) > CatalogScore(RecCatalog[1])

\* the profile with the level of skill s set to l
WithSkill(u, s, l) == [u EXCEPT !.skills = [x \in DOMAIN u.skills |-> IF x = s THEN l ELSE u.skills[x]]]

RequiredSkillsHeld(u, c) ==
    IF c.required_skills.t = "dict" THEN DOMAIN c.required_skills.m \cap DOMAIN u.skills
    ELSE {}

\* C3: raising the user's level for one skill the career requires, every other
\* input unchanged, never decreases the skill sub-score (for all levels 1..4 of
\* the user and every required-skill map).
C3_SkillMonotone ==
    scored.done =>
      \A s \in RequiredSkillsHeld(user, career) :
        \A l \in SkillLevel :
          l > user.skills[s] =>
            skill_match_rule(WithSkill(user, s, l), career).val >= scored.subs[1]

\* C3 witness: a scored profile for which a raise from below the required
\* level to it increases the sub-score, and one skill held above its
\* required level.
C3_Witness ==
    /\ scored.done
    /\ \E s \in RequiredSkillsHeld(user, career) :
          /\ user.skills[s] < career.required_skills.m[s]
          /\ career.required_skills.m[s] \in SkillLevel
          /\ skill_match_rule(WithSkill(user, s, career.required_skills.m[s]), career).val
               > scored.subs[1]
    /\ \E s \in RequiredSkillsHeld(user, career) :
          user.skills[s] > career.required_skills.m[s]

Items(seq) == {seq[k] : k \in 1..Len(seq)}

ErrorsOfKind(r, kind) == {k \in 1..Len(r.errors) : r.errors[k].kind = kind}
WarningsOfKind(r, kind) == {k \in 1..Len(r.warnings) : r.warnings[k].kind = kind}

NoCoercionFailure(rows) ==
    \A k \in 1..Len(rows) : \A f \in Items(numeric_fields) : CoercesToNumber(rows[k][f])

HasInvalidJson(rows) ==
    \E k \in 1..Len(rows) : \E f \in Items(json_fields) : JsonCheckFails(rows[k][f])

HasRangeViolation(rows) ==
    \E k \in 1..Len(rows) :
       \/ rows[k].salary_min.n >= rows[k].salary_max.n
       \/ ~(rows[k].growth_potential.n \in 1..10)
       \/ ~(rows[k].job_market_demand.n \in 1..10)

\* the source is read, has rows and has the 12 required columns: checks 1-3
\* of the validator pass
FullCatalog(src) == src.status = "ok" /\ src.rows # << >> /\ src.missing = {}

\* C4: when a non-empty source lacks one or more of the 12 required columns,
\* the report has valid=false, exactly one error, which names every missing
\* column, no warning and empty stats: no later check has run.
C4_MissingColumnsStop ==
    (report.called /\ source.status = "ok" /\ source.rows # << >> /\ source.missing # {})
    => /\ report.r.valid = FALSE
       /\ Len(report.r.errors) = 1
       /\ report.r.errors[1].kind = "missing_columns"
       /\ Items(report.r.errors[1].items) = source.missing
       /\ report.r.warnings = << >>
       /\ report.r.stats = NoStats

\* C4 witness: a report on a source that lacks two columns and whose rows
\* would fail the duplicate-id, JSON and range checks.
C4_Witness ==
    /\ report.called /\ source.status = "ok"
    /\ Cardinality(source.missing) >= 2
    /\ Len(source.rows) >= 2
    /\ source.rows[1].id = source.rows[2].id
    /\ HasInvalidJson(source.rows)
    /\ \E k \in 1..Len(source.rows) : source.rows[k].growth_potential.n < 1

\* the id values that more than one row has
RepeatedIds(rows) ==
    {rows[k].id : k \in {i \in 1..Len(rows) : \E j \in 1..Len(rows) : j # i /\ rows[j].id = rows[i].id}}

\* C5: when two or more rows of the catalog (a source that is read and has the
\* required columns) share an id, the report has valid=false and exactly one
\* duplicate-id error, whose list holds every id value that occurs more than
\* once (and no other value).
C5_DuplicateIdsListed ==
    (report.called /\ FullCatalog(source) /\ RepeatedIds(source.rows) # {})
    => /\ report.r.valid = FALSE
       /\ Cardinality(ErrorsOfKind(report.r, "duplicate_ids")) = 1
       /\ \A k \in ErrorsOfKind(report.r, "duplicate_ids") :
             Items(report.r.errors[k].items) = RepeatedIds(source.rows)

\* C5 witness: a report on two rows that share an id and differ in their title.
C5_Witness ==
    /\ report.called /\ FullCatalog(source)
    /\ Len(source.rows) >= 2
    /\ source.rows[1].id = source.rows[2].id
    /\ source.rows[1].title # source.rows[2].title
    /\ ErrorsOfKind(report.r, "duplicate_ids") # {}

\* C6: finding duplicate ids does not stop validation: for a catalog with
\* duplicate ids and no numeric-coercion failure, an invalid JSON field is
\* reported as an error and a range violation as a warning, in the same report
\* as the duplicate-id error.
C6_ChecksRunAfterDuplicates ==
    (report.called /\ FullCatalog(source) /\ RepeatedIds(source.rows) # {}
       /\ NoCoercionFailure(source.rows))
    => /\ ErrorsOfKind(report.r, "duplicate_ids") # {}
       /\ HasInvalidJson(source.rows) => ErrorsOfKind(report.r, "invalid_json") # {}
       /\ HasRangeViolation(source.rows) => report.r.warnings # << >>

\* C7: in every report, stats is non-empty only if valid is true.
C7_StatsOnlyWhenValid ==
    report.called => (report.r.stats # NoStats => report.r.valid)

\* reading the source, or converting one of its rows, fails
LoadFails(src) ==
    \/ src.status # "ok"
    \/ \E k \in 1..Len(src.rows) : ConvertRow(src, src.rows[k]).raised

Ids(catalog) == [k \in 1..Len(catalog) |-> catalog[k].id]

\* C8: if reading the source or converting any single row fails, the loader
\* returns (the constructor completes with) exactly the built-in fallback
\* catalog: two records, ids software_engineer and data_scientist in that
\* order, none of the rows converted before the failure.
C8_FallbackOnFailure ==
    (lresult # Unset /\ LoadFails(source))
    => /\ Ids(lists[lresult]) = << "software_engineer", "data_scientist" >>
       /\ lists[lresult] = get_default_careers
       /\ \A k \in 1..Len(lists[lresult]) :
             \A j \in 1..Len(source.rows) : lists[lresult][k].id # source.rows[j].id

\* C8 witness: the constructor has completed on a source whose first row
\* converted and whose second row did not.
C8_Witness ==
    /\ career_paths # Unset /\ lpc = "idle"
    /\ source.status = "ok" /\ Len(source.rows) >= 2
    /\ ~ConvertRow(source, source.rows[1]).raised
    /\ ConvertRow(source, source.rows[2]).raised
    /\ Len(lists[1]) = 1

\* C9: get_recommendations never raises on the catalog the loader built from a
\* source for which the validator reports valid=true.
C9_RankingNeverRaises ==
    (report.called /\ report.r.valid /\ recs.done) => ~recs.raised

\* what a completed load of src yields: every row converted, or the fallback
CompleteCatalog(src) ==
    IF LoadFails(src) THEN get_default_careers
    ELSE [k \in 1..Len(src.rows) |-> ConvertRow(src, src.rows[k]).val]

\* C10: a get_recommendations call running while a catalog is being loaded
\* never iterates a partially populated catalog: the list under its loop, and
\* the list the engine holds, is at every moment one complete catalog (all rows
\* of the source, or the complete fallback).
C10_ReaderSeesCompleteCatalog ==
    /\ rpc = "loop" => lists[riter] = CompleteCatalog(source)
    /\ career_paths # Unset => lists[career_paths] = CompleteCatalog(source)

\* C10 witness: a call in the middle of its loop while a second construction
\* has converted some but not all rows into its own list.
C10_Witness ==
    /\ rpc = "loop" /\ ridx > 1
    /\ lpc = "rows" /\ llocal # Unset /\ llocal # riter
    /\ Len(lists[llocal]) >= 1
    /\ Len(lists[llocal]) < Len(source.rows)


\* the weight of each rule in hundredths, in the order of rules(u, c): the
\* factor by which each rule multiplies what it returns
rule_weights == << 40, 25, 15, 10, 5, 3, 1, 1 >>

InRatingRange(c) ==
    /\ c.growth_potential \in 1..10
    /\ c.job_market_demand \in 1..10

\* C11: for every profile and every career whose growth_potential and
\* job_market_demand are in 1..10, the sub-score of each rule lies between 0
\* and the rule's weight, and the eight weights sum to exactly 1.0.
C11_SubScoresWithinWeights ==
    /\ SumOver(rule_weights, 1..Len(rule_weights)) * Scale = 100 * Scale
    /\ (scored.done /\ ~scored.raised /\ InRatingRange(career)) =>
          \A k \in 1..Len(rule_weights) :
             /\ 0 <= scored.subs[k]
             /\ 100 * scored.subs[k] <= rule_weights[k] * Scale


\* C12: careers that receive the same score are returned in the order the
\* catalog holds them, and when a tie straddles the cut the earlier catalog
\* entry is the one kept: the returned entries can be matched one-to-one with
\* catalog positions so that equal scores keep their catalog order and every
\* career left out stands behind each returned career of the same score.
C12_TiesInCatalogOrder ==
    (recs.done /\ ~recs.raised) =>
       LET cat == RecCatalog
           out == recs.out
       IN \E pos \in [1..Len(out) -> 1..Len(cat)] :
             /\ \A i, j \in 1..Len(out) : i # j => pos[i] # pos[j]
             /\ \A k \in 1..Len(out) : cat[pos[k]] = out[k].career
             /\ \A i, j \in 1..Len(out) :
                   (i < j /\ out[i].score = out[j].score) => pos[i] < pos[j]
             /\ \A j \in 1..Len(cat) :
                   (\A k \in 1..Len(out) : pos[k] # j) =>
                      \A k \in 1..Len(out) :
                         CatalogScore(cat[j]) = out[k].score => pos[k] < j

\* C12 witness: two different careers of the catalog score the same, and the
\* call returned only the one that stands first in the catalog.
C12_Witness ==
    /\ recs.done /\ ~recs.raised
    /\ recs.top_n = 1
    /\ Len(RecCatalog) = 2
    /\ RecCatalog[1] # RecCatalog[2]
    /\ CatalogScore(RecCatalog[1]) = CatalogScore(RecCatalog[2])
    /\ Len(recs.out) = 1
    /\ recs.out[1].career = RecCatalog[1]


\* C13: validate_csv_structure returns a report and never raises, for every
\* source; for a source that is missing or unreadable the report has
\* valid = false, exactly one error, no warnings and empty stats.
C13_ValidatorNeverRaises ==
    report.called =>
       /\ ~report.raised
       /\ source.status # "ok" =>
             /\ report.r.valid = FALSE
             /\ Len(report.r.errors) = 1
             /\ report.r.errors[1].kind \in {"not_found", "read_failed"}
             /\ report.r.warnings = << >>
             /\ report.r.stats = NoStats


\* C14: for a readable source with zero rows the validator records the
\* "empty" warning, leaves the stats empty and goes on with the later checks:
\* when the header lacks a required column the report has valid = false and
\* the missing-columns error.
C14_EmptySourceStillChecked ==
    (report.called /\ source.status = "ok" /\ source.rows = << >>) =>
       /\ ~report.raised
       /\ WarningsOfKind(report.r, "empty") # {}
       /\ report.r.stats = NoStats
       /\ source.missing # {} =>
             /\ report.r.valid = FALSE
             /\ \E k \in ErrorsOfKind(report.r, "missing_columns") :
                   Items(report.r.errors[k].items) = source.missing


\* the numeric fields in which some row of rows has a value that fails coercion
OffendingFields(rows) ==
    {f \in Items(numeric_fields) : \E k \in 1..Len(rows) : ~CoercesToNumber(rows[k][f])}

\* C15: when a value of at least one of the five numeric fields fails
\* coercion, the report has valid = false and exactly one error for each
\* offending field (naming the titles of its offending rows) and none for the
\* other numeric fields; it has no JSON-format error, no warning and empty
\* stats.
C15_NumericErrorsStop ==
    (report.called /\ FullCatalog(source) /\ OffendingFields(source.rows) # {}) =>
       /\ ~report.raised
       /\ report.r.valid = FALSE
       /\ \A f \in Items(numeric_fields) :
             LET of_field == {k \in ErrorsOfKind(report.r, "non_numeric") :
                                report.r.errors[k].field = f}
             IN /\ Cardinality(of_field) = (IF f \in OffendingFields(source.rows) THEN 1 ELSE 0)
                /\ \A k \in of_field :
                      Items(report.r.errors[k].items) =
                         {source.rows[j].title : j \in {i \in 1..Len(source.rows) :
                                            ~CoercesToNumber(source.rows[i][f])}}
       /\ ErrorsOfKind(report.r, "invalid_json") = {}
       /\ report.r.warnings = << >>
       /\ report.r.stats = NoStats

\* C15 witness: a validated source in which two numeric fields offend and a
\* JSON cell does not parse; the report has the two numeric errors.
C15_Witness ==
    /\ report.called /\ FullCatalog(source)
    /\ Cardinality(OffendingFields(source.rows)) = 2
    /\ HasInvalidJson(source.rows)
    /\ Cardinality(ErrorsOfKind(report.r, "non_numeric")) = 2


C17_CatalogIdsDistinct ==
    career_paths # Unset =>
       \A i, j \in 1..Len(lists[career_paths]) :
          i # j => lists[career_paths][i].id # lists[career_paths][j].id


\* the profile holding skill s at level l / interest i at level l
HoldingSkill(u, s, l) ==
    [u EXCEPT !.skills = [x \in DOMAIN u.skills \cup {s} |->
                            IF x = s THEN l ELSE u.skills[x]]]
HoldingInterest(u, i, l) ==
    [u EXCEPT !.interests = [x \in DOMAIN u.interests \cup {i} |->
                               IF x = i THEN l ELSE u.interests[x]]]

\* the required skills / relevant interests of c that the profile lacks
MissingSkills(u, c) ==
    IF c.required_skills.t = "dict" THEN DOMAIN c.required_skills.m \ DOMAIN u.skills
    ELSE {}
MissingInterests(u, c) ==
    IF c.relevant_interests.t = "dict"
    THEN DOMAIN c.relevant_interests.m \ DOMAIN u.interests
    ELSE {}

Recommended(u, cat, top_n) ==
    Slice(SortByScoreDesc(
              [k \in 1..Len(cat) |->
                  Entry(cat[k], calculate_career_score(u, cat[k]).val,
                        generate_explanation(u, cat[k],
                                             calculate_career_score(u, cat[k]).val))]),
          top_n)

TrackedBy(count) ==
    \A s \in Sessions :
       /\ conversation_state[s].present <=> count[s] >= 1
       /\ \A sum \in session_summaries(conversation_state, s) :
             IF conversation_state[s].present
             THEN ~sum.empty /\ sum.total_intents = count[s]
             ELSE sum = EmptySummary

\* C20 as claimed: s is in conversation_state exactly when at least one
\* process_message call for s has completed since the last reset_session(s),
\* and total_intents of its summary is the number of those completed calls.
C20_CompletedCallsTracked ==
    TrackedBy([s \in Sessions |-> session_calls[s].completed])

\* C20 amended: the calls that count are the process_message calls that
\* returned a response; a call that ends in the except branch returns the
\* apology and records nothing.  s is in conversation_state exactly when at
\* least one call for s has returned a response since the last
\* reset_session(s), total_intents is the number of those calls (the summary
\* is empty when s is absent), and no call for another session id changes
\* the state of s: a step that changes it is a call for s (it changes the
\* call counts of s and of no other session).
C20_AnsweredCallsTracked ==
    /\ [] TrackedBy([s \in Sessions |-> session_calls[s].answered])
    /\ [][\A s \in Sessions :
            conversation_state'[s] # conversation_state[s] =>
               /\ session_calls'[s] # session_calls[s]
               /\ \A t \in Sessions \ {s} : session_calls'[t] = session_calls[t]]_vars

\* C20 witness: after a reset of s1, one call for it returned a response and
\* one the apology, while s2 holds one intent; the last summary taken is
\* that of s1.
C20_Witness ==
    /\ session_calls["s1"].was_reset
    /\ session_calls["s1"].answered = 1 /\ session_calls["s1"].completed = 2
    /\ conversation_state["s1"].present
    /\ Len(conversation_state["s2"].intents) = 1
    /\ ~session_calls["s2"].was_reset
    /\ ~summary.empty /\ summary.session_id = "s1" /\ summary.total_intents = 1



-----------------------------------------------------------------------------
\* C21: process_message never raises; when intent detection or context
\* building fails (response generation has no failing input), the call
\* returns the apology and conversation_state is what it was: no entry is
\* created for the session and no intent is appended.
FailsInside(message, session_id, message_history) ==
    detect_intent(message).raised \/ get_context(session_id, message_history).raised

\* the calls of this model in which a step inside the try block fails
FailingCalls ==
    { call \in Messages \X Sessions \X Histories :
        FailsInside(call[1], call[2], call[3]) }

C21_FailureReturnsApology ==
    /\ [](\A call \in FailingCalls :
            LET out == process_message(conversation_state, call[1], call[2], call[3],
                                       clock + 1)
            IN out.reply = Apology /\ out.state = conversation_state)
    /\ [][(clock' # clock /\ reply' = Apology)
              => conversation_state' = conversation_state]_vars

\* a failed call for a session that has no entry, while another session has
\* one
C21_Witness ==
    /\ reply = Apology
    /\ \E s \in Sessions :
          /\ session_calls[s].completed > session_calls[s].answered
          /\ ~conversation_state[s].present
          /\ \E t \in Sessions \ {s} : Len(conversation_state[t].intents) > 0



-----------------------------------------------------------------------------
\* the two class statements named RuleEngine of core/rule_engine.py, in the
\* order the module executes them: what the constructor takes besides self,
\* the attributes it sets, and the signature and result of get_recommendations
RuleEngineClasses ==
    << [ init_parameters |-> <<"career_db_path">>,
         attributes |-> {"careers", "rules"},
         parameters |-> <<"user", "top_n">>,
         returns |-> "list of triples" ],
       [ init_parameters |-> << >>,
         attributes |-> {},
         parameters |-> <<"user_query">>,
         returns |-> "str" ] >>

\* a class statement binds its name anew: the module's RuleEngine is the
\* class of the last statement
ExportedRuleEngine == RuleEngineClasses[Len(RuleEngineClasses)]

\* get_recommendations(profile, top_n=N) on an instance of a class:
\* an unexpected keyword argument is a TypeError
CallWithTopN(class) ==
    IF \E k \in 1..Len(class.parameters) : class.parameters[k] = "top_n"
    THEN [raised |-> FALSE, returns |-> class.returns]
    ELSE [raised |-> TRUE, returns |-> ""]

\* C22: the exported name RuleEngine denotes the scoring engine: an instance
\* holds a catalog and rules, and get_recommendations(profile, top_n=N)
\* returns the list of (career, score, explanation) triples that the
\* scoring engine's call returned.
C22_ExportedIsScoringEngine ==
    /\ {"careers", "rules"} \subseteq ExportedRuleEngine.attributes
    /\ ~CallWithTopN(ExportedRuleEngine).raised
    /\ (recs.done /\ ~recs.raised) =>
          CallWithTopN(ExportedRuleEngine).returns = "list of triples"



-----------------------------------------------------------------------------
\* the titles of the rows that violate a range check, in row order
SalaryOffenders(rows) ==
    Column(rows, [k \in 1..Len(rows) |-> rows[k].salary_min.n >= rows[k].salary_max.n],
           "title")
ScaleOffenders(rows, f) ==
    Column(rows, [k \in 1..Len(rows) |-> ~(rows[k][f].n \in 1..10)], "title")

\* the warnings of a report for one range check
RangeWarnings(r, kind, f) ==
    {k \in 1..Len(r.warnings) : r.warnings[k].kind = kind /\ r.warnings[k].field = f}

\* C23: in every report validate_csv_structure returns, valid is false
\* exactly when errors is non-empty; a range violation is never an error;
\* when the range checks run, each violated check adds exactly one warning,
\* which names the offending titles, and a check no row violates adds none.
C23_ValidIffNoErrors ==
    (report.called /\ ~report.raised) =>
       LET r == report.r
           rows == source.rows
           ranged == FullCatalog(source) /\ duplicate_ids(rows) = << >>
                     /\ numeric_errors(rows) = << >>
           Once(kind, f, titles) ==
               /\ Cardinality(RangeWarnings(r, kind, f)) = IF titles = << >> THEN 0 ELSE 1
               /\ \A k \in RangeWarnings(r, kind, f) : r.warnings[k].items = titles
       IN /\ r.valid <=> r.errors = << >>
          /\ ErrorsOfKind(r, "salary_range") = {} /\ ErrorsOfKind(r, "out_of_range") = {}
          /\ ranged =>
               /\ Once("salary_range", "salary_min", SalaryOffenders(rows))
               /\ Once("out_of_range", "growth_potential",
                       ScaleOffenders(rows, "growth_potential"))
               /\ Once("out_of_range", "job_market_demand",
                       ScaleOffenders(rows, "job_market_demand"))
               /\ (json_errors(rows) = << >> => r.valid)
          /\ ~ranged => WarningsOfKind(r, "salary_range") = {}
                        /\ WarningsOfKind(r, "out_of_range") = {}

\* a returned report that is valid and carries the salary and the growth
\* warning for the same row
C23_Witness ==
    /\ report.called /\ ~report.raised /\ report.r.valid
    /\ Len(source.rows) = 2
    /\ SalaryOffenders(source.rows) # << >>
    /\ WarningsOfKind(report.r, "salary_range") # {}
    /\ WarningsOfKind(report.r, "out_of_range") # {}



-----------------------------------------------------------------------------
\* the titles the salary warning of a report names, << >> without one
SalaryWarned(r) ==
    IF WarningsOfKind(r, "salary_range") = {} THEN << >>
    ELSE r.warnings[CHOOSE k \in WarningsOfKind(r, "salary_range") : TRUE].items

\* a returned report of a source on which the range checks ran
RangeChecked ==
    /\ report.called /\ ~report.raised
    /\ FullCatalog(source)
    /\ duplicate_ids(source.rows) = << >> /\ numeric_errors(source.rows) = << >>

\* C24 as stated: the salary warning names a row exactly when the row
\* violates salary_min <= salary_max; a row with salary_min = salary_max
\* gets no salary warning.
C24_WarnedIffMinAboveMax ==
    RangeChecked =>
       SalaryWarned(report.r) =
          Column(source.rows,
                 [k \in 1..Len(source.rows) |->
                     ~(source.rows[k].salary_min.n <= source.rows[k].salary_max.n)],
                 "title")

\* C24 amended: the salary warning names a row exactly when its salary_min
\* is greater than or equal to its salary_max; a row with salary_min =
\* salary_max is named although it satisfies salary_min <= salary_max.
C24_WarnedIffMinNotBelowMax ==
    RangeChecked =>
       SalaryWarned(report.r) =
          Column(source.rows,
                 [k \in 1..Len(source.rows) |->
                     source.rows[k].salary_min.n >= source.rows[k].salary_max.n],
                 "title")

\* a report whose salary warning names a row with salary_min = salary_max
\* and leaves out a row with salary_min < salary_max
C24_Witness ==
    /\ RangeChecked
    /\ Len(source.rows) = 2
    /\ source.rows[1].salary_min.n < source.rows[1].salary_max.n
    /\ source.rows[2].salary_min.n = source.rows[2].salary_max.n
    /\ SalaryWarned(report.r) = << source.rows[2].title >>



-----------------------------------------------------------------------------
\* the required skills and relevant interests of a career that a profile holds
HeldSkills(u, c) == DOMAIN c.required_skills.m \cap DOMAIN u.skills
HeldInterests(u, c) == DOMAIN c.relevant_interests.m \cap DOMAIN u.interests

\* C25: missing data degrades a rule to zero instead of failing. An empty
\* required-skill (relevant-interest) map gives exactly 0 on the skill
\* (interest) rule; a profile that holds none of the required skills
\* (relevant interests) gets 0 without a failure; and the entries the
\* profile lacks add nothing: the sub-score is the one computed from the
\* held entries alone, over the size of the whole map.
C25_MissingDataScoresZero ==
    scored.done =>
       LET skill == skill_match_rule(user, career)
           interest == interest_alignment_rule(user, career)
           rs == career.required_skills
           ri == career.relevant_interests
       IN /\ (rs.t = "dict" /\ DOMAIN rs.m = {}) => ~skill.raised /\ skill.val = 0
          /\ (ri.t = "dict" /\ DOMAIN ri.m = {}) => ~interest.raised /\ interest.val = 0
          /\ (rs.t = "dict" /\ DOMAIN rs.m # {}) =>
                LET held == HeldSkills(user, career)
                    met == {s \in held : user.skills[s] >= rs.m[s]}
                    excess == [s \in met |-> user.skills[s] - rs.m[s]]
                    total == Cardinality(DOMAIN rs.m)
                IN /\ ~skill.raised
                   /\ held = {} => skill.val = 0
                   /\ 10 * total * skill.val =
                         4 * Min(total * Scale,
                                 Cardinality(met) * Scale
                                   + total * ((SumOver(excess, met) * Scale) \div 10))
          /\ (ri.t = "dict" /\ DOMAIN ri.m # {}) =>
                LET held == HeldInterests(user, career)
                    total == Cardinality(DOMAIN ri.m)
                IN /\ held = {} => ~interest.raised /\ interest.val = 0
                   /\ interest.raised <=> \E i \in held : ri.m[i] = 0
                   /\ (~interest.raised /\ \A i \in held : ri.m[i] > 0) =>
                         4 * total * interest.val
                            <= Cardinality(held) * ((3 * Scale) \div 2)
                   /\ (scored.raised = FALSE) =>
                         /\ scored.subs[1] = skill.val
                         /\ scored.subs[2] = interest.val

\* a scored profile that lacks one of two required skills and a relevant
\* interest and still gets a positive skill sub-score
C25_Witness ==
    /\ scored.done /\ ~scored.raised
    /\ career.required_skills.t = "dict" /\ career.relevant_interests.t = "dict"
    /\ MissingSkills(user, career) # {} /\ HeldSkills(user, career) # {}
    /\ MissingInterests(user, career) # {}
    /\ scored.subs[1] > 0 /\ scored.subs[2] = 0

\* scored: a career with an empty required-skill map, 0 on the skill rule
C25_EmptyMapWitness ==
    /\ scored.done /\ ~scored.raised
    /\ career.required_skills.t = "dict" /\ DOMAIN career.required_skills.m = {}
    /\ DOMAIN user.skills # {}
    /\ scored.subs[1] = 0



-----------------------------------------------------------------------------
\* an explanation list holds the note with this text
HasNote(notes, text) == \E k \in 1..Len(notes) : notes[k].text = text

\* C26: in each returned recommendation the explanation has "Strong skill
\* alignment" exactly when the skill sub-score divided by 0.40 is above 0.8
\* (at a quotient of exactly 0.8 the rounding of the doubles decides) and
\* "May need to develop additional skills" exactly when it is below 0.5,
\* never both and neither in between; likewise for the interest sub-score
\* divided by 0.25; a profile that meets none of the required skills has
\* skill sub-score 0 and gets the develop-skills consideration.
C26_LabelsFollowThresholds ==
    (recs.done /\ ~recs.raised) =>
       \A k \in 1..Len(recs.out) :
          LET e == recs.out[k]
              c == e.career
              skill == skill_match_rule(user, c).val
              interest == interest_alignment_rule(user, c).val
              strong == HasNote(e.explanation.strengths, "Strong skill alignment")
              develop == HasNote(e.explanation.considerations,
                                 "May need to develop additional skills")
              excellent == HasNote(e.explanation.strengths, "Excellent interest match")
              better == HasNote(e.explanation.considerations,
                                "Interest alignment could be better")
              met == {s \in HeldSkills(user, c) : user.skills[s] >= c.required_skills.m[s]}
          IN /\ 100 * skill > 32 * Scale => strong       \* skill / 0.4 > 0.8
             /\ 100 * skill < 32 * Scale => ~strong
             /\ develop <=> 10 * skill < 2 * Scale           \* skill / 0.4 < 0.5
             /\ ~(strong /\ develop)
             /\ excellent <=> 5 * interest > Scale           \* interest / 0.25 > 0.8
             /\ better <=> 8 * interest < Scale              \* interest / 0.25 < 0.5
             /\ ~(excellent /\ better)
             /\ met = {} => skill = 0 /\ develop

\* a returned recommendation with neither skill label (the profile meets one
\* of two required skills exactly) and neither interest label
C26_Witness ==
    /\ recs.done /\ ~recs.raised /\ Len(recs.out) = 1
    /\ LET e == recs.out[1]
       IN /\ 10 * skill_match_rule(user, e.career).val = 2 * Scale
          /\ MissingSkills(user, e.career) # {}
          /\ e.explanation.strengths = << >>
          /\ ~HasNote(e.explanation.considerations, "May need to develop additional skills")
          /\ ~HasNote(e.explanation.considerations, "Interest alignment could be better")



-----------------------------------------------------------------------------
\* the experience sub-score of the scored profile with y years of experience
ExperienceAt(y) ==
    experience_requirement_rule([user EXCEPT !.experience_years = y], career).val

-----------------------------------------------------------------------------
\* C28: after construction from any source the engine's catalog is never
\* empty (at least one loaded career, or the two fallback careers), so a
\* get_recommendations call with top_n >= 1 that returns, returns at least
\* one result.
C28_CatalogNeverEmpty ==
    /\ career_paths # Unset => Len(lists[career_paths]) >= 1
    /\ (recs.done /\ ~recs.raised /\ recs.top_n >= 1) => Len(recs.out) >= 1



-----------------------------------------------------------------------------
\* C29: every source with at least one row that validate_csv_structure
\* reports valid is loaded as one CareerPath per row, in row order, and not
\* as the fallback catalog.
C29_ValidSourceLoads ==
    (report.called /\ ~report.raised /\ report.r.valid
       /\ Len(source.rows) >= 1 /\ career_paths # Unset)
    => /\ ~LoadFails(source)
       /\ Len(lists[career_paths]) = Len(source.rows)
       /\ \A k \in 1..Len(source.rows) :
             lists[career_paths][k] = ConvertRow(source, source.rows[k]).val



-----------------------------------------------------------------------------
\* the required skills of a career that a profile holds at or above the
\* required level, and the levels it holds in excess on them
MetSkills(u, c) ==
    {s \in HeldSkills(u, c) : u.skills[s] >= c.required_skills.m[s]}
ExcessLevels(u, c) ==
    SumOver([s \in MetSkills(u, c) |-> u.skills[s] - c.required_skills.m[s]],
            MetSkills(u, c))

\* C30 as stated: in a returned recommendation the skill sub-score is the
\* full 0.40, with the "Strong skill alignment" strength, only if the profile
\* holds every required skill at or above the required level.
C30_FullOnlyIfAllMet ==
    (recs.done /\ ~recs.raised) =>
       \A k \in 1..Len(recs.out) :
          LET e == recs.out[k] IN
          (/\ 10 * skill_match_rule(user, e.career).val = 4 * Scale
           /\ HasNote(e.explanation.strengths, "Strong skill alignment"))
          => MetSkills(user, e.career) = DOMAIN e.career.required_skills.m

\* C30 amended: the skill sub-score is the full 0.40 exactly when the share of
\* met required skills plus 0.1 per level held in excess on them is at least
\* 1: always when every required skill is met, and also when the excess on
\* the met skills makes up for the share of the unmet ones; the strength is
\* then reported, and no profile that meets none of the required skills
\* gets it.
C30_FullWhenShareAndBonusReachOne ==
    (recs.done /\ ~recs.raised) =>
       \A k \in 1..Len(recs.out) :
          LET e == recs.out[k]
              c == e.career
              required == DOMAIN c.required_skills.m
              total == Cardinality(required)
              met == Cardinality(MetSkills(user, c))
              full == 10 * skill_match_rule(user, c).val = 4 * Scale
              strong == HasNote(e.explanation.strengths, "Strong skill alignment")
          IN required # {} =>
                /\ full <=> 10 * met + total * ExcessLevels(user, c) >= 10 * total
                /\ met = total => full
                /\ full => strong
                /\ strong => met >= 1

\* a returned recommendation with the full 0.40 and the strength for a
\* profile that lacks a required skill
C30_Witness ==
    /\ recs.done /\ ~recs.raised /\ Len(recs.out) = 1
    /\ LET e == recs.out[1]
       IN /\ 10 * skill_match_rule(user, e.career).val = 4 * Scale
          /\ HasNote(e.explanation.strengths, "Strong skill alignment")
          /\ MissingSkills(user, e.career) # {}
          /\ Cardinality(MetSkills(user, e.career)) = 2

=============================================================================
